---- MODULE Spec2Model ----
(***************************************************************************)
(* Model of sledgehammer_playwright.py: the depth-1 crawl frontier         *)
(* (crawl_depth1), the page capture pipeline (render_and_capture), the     *)
(* asset download batch, chunk_text and extract_urls_from_css.             *)
(***************************************************************************)
EXTENDS Integers, Sequences, FiniteSets, TLC

(***************************************************************************)
(* Bounds of the model.                                                    *)
(***************************************************************************)
\* largest --max-pages value tried
MaxPages == 3
\* largest number of <a href> elements on one captured page
MaxLinks == 2
\* chunk_text inputs: chunk sizes ChunkStep, 2*ChunkStep, ... MaxChunkMult*ChunkStep
\* with texts of up to MaxTextLen characters, and the chunk sizes 1..MaxSmallSize
\* with texts of up to MaxSmallLen characters
ChunkStep == 300
MaxChunkMult == 4
MaxTextLen == 1700
MaxSmallSize == 3
MaxSmallLen == 7
\* longest list of CSS-declared asset URLs
MaxCssAssets == 2
\* extract_urls_from_css inputs: at most MaxStmts references in a stylesheet,
\* each with at most MaxBody characters between its delimiters
MaxStmts == 2
MaxBody == 1

(***************************************************************************)
(* Program constants.                                                      *)
(***************************************************************************)
CHUNK_OVERLAP == 800
\* the most assets one capture downloads (lines 210-211)
MAX_ASSETS == 250

(***************************************************************************)
(* URLs.  A URL is what urllib.parse.urlparse makes of it: its scheme, its *)
(* network location and the rest.                                          *)
(***************************************************************************)
U(s, n, p) == [scheme |-> s, netloc |-> n, path |-> p]

StartUrl == U("http", "site", "/")

\* the href attribute values a page may carry: absolute URLs (the start page,
\* same-origin pages, the same host under another scheme, another host),
\* a host-relative path, a mailto: and a javascript: reference
Hrefs ==
    { [kind |-> "abs", url |-> StartUrl],
      [kind |-> "abs", url |-> U("http", "site", "/b")],
      [kind |-> "abs", url |-> U("http", "site", "/c")],
      [kind |-> "abs", url |-> U("https", "site", "/a")],
      [kind |-> "abs", url |-> U("http", "other", "/a")],
      [kind |-> "abs", url |-> U("mailto", "", "x@site")],
      [kind |-> "abs", url |-> U("javascript", "", "void(0)")],
      [kind |-> "path", url |-> U("", "", "/a")] }

\* the colors a page's colors.txt may hold
Colors == {"#fff"}

\* urllib.parse.urljoin: an absolute reference stands, a host-relative path
\* takes the base's scheme and network location
norm(base, href) ==
    IF href.kind = "abs"
    THEN href.url
    ELSE U(base.scheme, base.netloc, href.url.path)

is_same_origin_netloc_only(base_url, candidate) ==
    base_url.netloc = candidate.netloc

is_same_origin(base_url, candidate) ==
    <<base_url.scheme, base_url.netloc>> = <<candidate.scheme, candidate.netloc>>

\* nxt.startswith("mailto:") or nxt.startswith("javascript:")
is_skipped_scheme(nxt) == nxt.scheme \in {"mailto", "javascript"}

\* x in queue
InSeq(x, s) == \E i \in 1..Len(s) : s[i] = x

VARIABLES
    depth,              \* --depth
    start_url,          \* the positional url argument
    max_pages,          \* --max-pages
    same_origin,        \* --same-origin
    pc,                 \* where the program is
    visited,            \* crawl_depth1: visited
    queue,              \* crawl_depth1: queue
    pg,                 \* crawl_depth1: pg
    merged_colors,      \* crawl_depth1: merged_colors
    url,                \* the URL of the current iteration / capture
    nlinks,             \* anchors of the current page handled so far
    colors_txt,         \* content of colors.txt
    colors_merged_txt,  \* colors_merged.txt: whether it is written, and its lines
    visited_urls_txt,   \* visited_urls.txt: whether it is written, and its lines
    calls,              \* history: the URLs render_and_capture was invoked with, in order
    returned,           \* history: the URLs whose render_and_capture returned a result
    nav_ok,             \* history: the URLs whose navigation succeeded
    raised_at,          \* history: the step whose exception ended the program, or "none"
    rediscovered,       \* history: URLs found by an anchor while visited or queued
    rejected,           \* history: URLs found by an anchor and refused by the origin test
    start_links         \* history: URLs found by an anchor on the start URL's page

VARIABLES
    chunk_pc,           \* chunk_text: "idle", "loop" or "returned"
    big_len,            \* chunk_text: L = len(big)
    chunk_size,         \* chunk_text: chunk_size
    chunk_i,            \* chunk_text: i
    chunks              \* chunk_text: chunks

chunk_vars == <<chunk_pc, big_len, chunk_size, chunk_i, chunks>>

VARIABLES
    asset_pc,           \* render_and_capture, lines 206-215: "idle", "css", "union",
                        \* "download" or "done"
    dom_assets,         \* render_and_capture: dom_assets
    assets_from_css,    \* render_and_capture: assets_from_css
    all_assets,         \* render_and_capture: all_assets
    assets_meta,        \* render_and_capture: assets_meta
    dl_pos,             \* position of the loop of line 213 in all_assets
    net_fail,           \* the URLs whose download fails
    css_declared,       \* history: assets_from_css as the stylesheets declared it
    issued              \* history: the URLs download_asset was called with, in order

asset_vars ==
    <<asset_pc, dom_assets, assets_from_css, all_assets, assets_meta, dl_pos,
      net_fail, css_declared, issued>>

VARIABLES
    css_pc,             \* extract_urls_from_css: "idle", "called" or "returned"
    css_text,           \* extract_urls_from_css: css_text
    base_url,           \* extract_urls_from_css: base_url
    css_urls            \* extract_urls_from_css: the list returned

css_vars == <<css_pc, css_text, base_url, css_urls>>

\* the variables the crawl and the capture leave alone
not_crawl == <<chunk_vars, asset_vars, css_vars>>

crawl_vars ==
    <<depth, start_url, max_pages, same_origin, pc, visited, queue, pg,
      merged_colors, url, nlinks, colors_txt, colors_merged_txt,
      visited_urls_txt, calls, returned, nav_ok, raised_at, rediscovered,
      rejected, start_links>>

vars == <<crawl_vars, chunk_vars, asset_vars, css_vars>>

origin == start_url.netloc

\* a file of the output directory
NoFile == [written |-> FALSE, lines |-> {}]
File(content) == [written |-> TRUE, lines |-> content]

InitCrawl ==
    /\ depth \in {0, 1}
    /\ start_url = StartUrl
    /\ max_pages \in 0..MaxPages
    /\ same_origin \in BOOLEAN
    /\ pc = "main"
    /\ visited = {}
    /\ queue = <<>>
    /\ pg = 0
    /\ merged_colors = {}
    /\ url = StartUrl
    /\ nlinks = 0
    /\ colors_txt = {}
    /\ colors_merged_txt = NoFile
    /\ visited_urls_txt = NoFile
    /\ calls = <<>>
    /\ returned = {}
    /\ nav_ok = {}
    /\ raised_at = "none"
    /\ rediscovered = {}
    /\ rejected = {}
    /\ start_links = {}

\* the crawler is not running
IdleCrawl ==
    /\ depth = 0 /\ start_url = StartUrl /\ max_pages = 0 /\ same_origin = FALSE
    /\ pc = "idle" /\ visited = {} /\ queue = <<>> /\ pg = 0
    /\ merged_colors = {} /\ url = StartUrl /\ nlinks = 0 /\ colors_txt = {}
    /\ colors_merged_txt = NoFile /\ visited_urls_txt = NoFile
    /\ calls = <<>> /\ returned = {} /\ nav_ok = {} /\ raised_at = "none"
    /\ rediscovered = {} /\ rejected = {} /\ start_links = {}

(***************************************************************************)
(* __main__ (lines 354-382)                                                *)
(***************************************************************************)
\* depth 0 captures the one page; any other depth enters crawl_depth1, whose
\* lines 318-324 set up the frontier
Main ==
    /\ pc = "main"
    /\ IF depth = 0
       THEN /\ pc' = "call"
            /\ UNCHANGED <<visited, queue>>
       ELSE /\ pc' = "loop"
            /\ visited' = {}
            /\ queue' = <<start_url>>
    /\ url' = start_url
    /\ pg' = 0
    /\ merged_colors' = {}
    /\ UNCHANGED <<not_crawl, depth, start_url, max_pages, same_origin, nlinks, colors_txt,
                   colors_merged_txt, visited_urls_txt, calls, returned, nav_ok,
                   raised_at, rediscovered, rejected, start_links>>

\* depth 0, after the capture returned: selector_map_to_csv, then the end
SinglePageDone ==
    /\ pc = "single_csv"
    /\ pc' = "done"
    /\ UNCHANGED <<not_crawl, depth, start_url, max_pages, same_origin, visited, queue, pg,
                   merged_colors, url, nlinks, colors_txt, colors_merged_txt,
                   visited_urls_txt, calls, returned, nav_ok, raised_at,
                   rediscovered, rejected, start_links>>

(***************************************************************************)
(* crawl_depth1 (lines 317-352)                                            *)
(***************************************************************************)
mark_visited_forgotten(vis, u) == vis

\* visited.add(url), line 329
mark_visited(vis, u) == vis \cup {u}

should_enqueue_ignoring_queue(nxt, vis, q, so, start) ==
    /\ nxt \notin vis
    /\ (~so) \/ is_same_origin(start, nxt)

\* lines 342-343: the guard of queue.append(nxt)
should_enqueue(nxt, vis, q, so, start) ==
    /\ nxt \notin vis /\ ~InSeq(nxt, q)
    /\ (~so) \/ is_same_origin(start, nxt)

\* lines 325-330: the loop test, queue.pop(0), the two skip tests, and the
\* bookkeeping before the capture
Dequeue ==
    /\ pc = "loop"
    /\ queue # <<>> /\ pg < max_pages
    /\ url' = Head(queue)
    /\ queue' = Tail(queue)
    /\ IF Head(queue) \in visited
       THEN /\ pc' = "loop"
            /\ UNCHANGED <<visited, pg>>
       ELSE IF same_origin /\ Head(queue).netloc # origin
       THEN /\ pc' = "loop"
            /\ UNCHANGED <<visited, pg>>
       ELSE /\ visited' = mark_visited(visited, Head(queue))
            /\ pg' = pg + 1
            /\ pc' = "call"
    /\ UNCHANGED <<not_crawl, depth, start_url, max_pages, same_origin, merged_colors,
                   nlinks, colors_txt, colors_merged_txt, visited_urls_txt,
                   calls, returned, nav_ok, raised_at, rediscovered, rejected, start_links>>

\* lines 325, 349-352: the loop test fails; colors_merged.txt and
\* visited_urls.txt are written
LoopExit ==
    /\ pc = "loop"
    /\ ~(queue # <<>> /\ pg < max_pages)
    /\ colors_merged_txt' = File(merged_colors)
    /\ visited_urls_txt' = File(visited)
    /\ pc' = "done"
    /\ UNCHANGED <<not_crawl, depth, start_url, max_pages, same_origin, visited, queue, pg,
                   merged_colors, url, nlinks, colors_txt, calls, returned,
                   nav_ok, raised_at, rediscovered, rejected, start_links>>

\* lines 334-335: colors.txt is read back and merged
MergeColors ==
    /\ pc = "merge"
    /\ merged_colors' = merged_colors \cup colors_txt
    /\ nlinks' = 0
    /\ pc' = "discover"
    /\ UNCHANGED <<not_crawl, depth, start_url, max_pages, same_origin, visited, queue, pg,
                   url, colors_txt, colors_merged_txt, visited_urls_txt, calls,
                   returned, nav_ok, raised_at, rediscovered, rejected, start_links>>

\* lines 339-344, one turn of the loop over the page's anchors; the anchors of
\* the captured document are read one at a time
DiscoverLink ==
    /\ pc = "discover"
    /\ nlinks < MaxLinks
    /\ \E href \in Hrefs :
         LET nxt == norm(url, href) IN
         /\ nlinks' = nlinks + 1
         /\ IF is_skipped_scheme(nxt)
            THEN UNCHANGED <<queue, rediscovered, rejected, start_links>>
            ELSE /\ queue' = IF should_enqueue(nxt, visited, queue, same_origin, start_url)
                             THEN Append(queue, nxt)
                             ELSE queue
                 /\ rediscovered' = IF nxt \in visited \/ InSeq(nxt, queue)
                                    THEN rediscovered \cup {nxt}
                                    ELSE rediscovered
                 /\ rejected' = IF same_origin /\ ~is_same_origin(start_url, nxt)
                                THEN rejected \cup {nxt}
                                ELSE rejected
                 /\ start_links' = IF url = start_url
                                   THEN start_links \cup {nxt}
                                   ELSE start_links
    /\ UNCHANGED <<not_crawl, depth, start_url, max_pages, same_origin, pc, visited, pg,
                   merged_colors, url, colors_txt, colors_merged_txt,
                   visited_urls_txt, calls, returned, nav_ok, raised_at>>

\* lines 339, 347: no anchor is left; the page's selector map is written
DiscoverEnd ==
    /\ pc = "discover"
    /\ pc' = "loop"
    /\ UNCHANGED <<not_crawl, depth, start_url, max_pages, same_origin, visited, queue, pg,
                   merged_colors, url, nlinks, colors_txt, colors_merged_txt,
                   visited_urls_txt, calls, returned, nav_ok, raised_at,
                   rediscovered, rejected, start_links>>

(***************************************************************************)
(* render_and_capture (lines 99-262).  No statement of it is inside a try  *)
(* block (only the response callback and download_asset catch), and its    *)
(* callers catch nothing: an exception raised by a step leaves             *)
(* render_and_capture, crawl_depth1 and the program.                       *)
(***************************************************************************)
\* the exception of `step` propagates to the top of the program
Raise(step) ==
    /\ pc' = "aborted"
    /\ raised_at' = step
    /\ UNCHANGED <<not_crawl, depth, start_url, max_pages, same_origin, visited, queue, pg,
                   merged_colors, url, nlinks, colors_txt, colors_merged_txt,
                   visited_urls_txt, calls, returned, nav_ok, rediscovered,
                   rejected, start_links>>

\* `step` completes and control reaches `nextstep`
Proceed(nextstep) ==
    /\ pc' = nextstep
    /\ UNCHANGED <<not_crawl, depth, start_url, max_pages, same_origin, visited, queue, pg,
                   merged_colors, url, nlinks, colors_txt, colors_merged_txt,
                   visited_urls_txt, calls, returned, nav_ok, raised_at,
                   rediscovered, rejected, start_links>>

\* a step after navigation: it completes or it raises
Step(step, nextstep) ==
    /\ pc = step
    /\ \/ Proceed(nextstep)
       \/ Raise(step)

\* lines 99-127: the call; directories, browser, context, page, callback
Enter ==
    /\ pc = "call"
    /\ calls' = Append(calls, url)
    /\ pc' = "navigate"
    /\ UNCHANGED <<not_crawl, depth, start_url, max_pages, same_origin, visited, queue, pg,
                   merged_colors, url, nlinks, colors_txt, colors_merged_txt,
                   visited_urls_txt, returned, nav_ok, raised_at, rediscovered, rejected, start_links>>

\* line 128: page.goto(url, wait_until="networkidle", timeout=60_000) returns,
\* or raises on a timeout or a navigation error
Navigate ==
    /\ pc = "navigate"
    /\ \/ /\ pc' = "settle"
          /\ nav_ok' = nav_ok \cup {url}
          /\ UNCHANGED raised_at
       \/ /\ pc' = "aborted"
          /\ raised_at' = "navigate"
          /\ UNCHANGED nav_ok
    /\ UNCHANGED <<not_crawl, depth, start_url, max_pages, same_origin, visited, queue, pg,
                   merged_colors, url, nlinks, colors_txt, colors_merged_txt,
                   visited_urls_txt, calls, returned, rediscovered, rejected, start_links>>

\* lines 131-144: the scroll script and the settle delay
Settle == Step("settle", "extract")

\* lines 146-148: page.content(), page.title(), page.url
Extract == Step("extract", "screenshot")

\* lines 149-150: page.screenshot
Screenshot == Step("screenshot", "parse")

\* lines 153-178: BeautifulSoup, visible text, meta tags, DOM assets (norm)
ParseDom == Step("parse", "computed_colors")

\* lines 181-198: the computed-color script and its rows
ComputedColors == Step("computed_colors", "collect_css")

\* lines 201-206: each stylesheet is written, scanned for colors and for URLs
CollectCss == Step("collect_css", "collect_assets")

\* lines 209-215: the download batch; download_asset catches its own failures
CollectAssets ==
    /\ pc = "collect_assets"
    /\ Proceed("persist")

\* lines 218-254: the page files are written, colors.txt among them
Persist ==
    /\ pc = "persist"
    /\ \/ /\ \E cs \in SUBSET Colors : colors_txt' = cs
          /\ pc' = "return"
          /\ UNCHANGED raised_at
       \/ /\ pc' = "aborted"
          /\ raised_at' = "persist"
          /\ UNCHANGED colors_txt
    /\ UNCHANGED <<not_crawl, depth, start_url, max_pages, same_origin, visited, queue, pg,
                   merged_colors, url, nlinks, colors_merged_txt,
                   visited_urls_txt, calls, returned, nav_ok, rediscovered, rejected, start_links>>

\* lines 256-262: the result is returned to the caller
Return ==
    /\ pc = "return"
    /\ returned' = returned \cup {url}
    /\ pc' = IF depth = 0 THEN "single_csv" ELSE "merge"
    /\ UNCHANGED <<not_crawl, depth, start_url, max_pages, same_origin, visited, queue, pg,
                   merged_colors, url, nlinks, colors_txt, colors_merged_txt,
                   visited_urls_txt, calls, nav_ok, raised_at, rediscovered, rejected, start_links>>

(***************************************************************************)
(* chunk_text (lines 54-63).  The text is its characters' positions        *)
(* 0..L-1; a slice big[a:b] is the half-open range of positions it holds.  *)
(***************************************************************************)
Max(a, b) == IF a >= b THEN a ELSE b
Min(a, b) == IF a <= b THEN a ELSE b

\* a slice index as Python reads it on a string of length L: a negative index
\* counts from the end, and both ends are clipped to the string
slice_index(x, L) == IF x < 0 THEN Max(x + L, 0) ELSE Min(x, L)

\* big[a:b] on a string of length L
slice(L, a, b) ==
    LET lo == slice_index(a, L)
        hi == slice_index(b, L)
    IN  [start |-> lo, stop |-> Max(lo, hi)]

chunk_start_unclamped(i) == i - CHUNK_OVERLAP

\* line 60: the slice start max(0, i-CHUNK_OVERLAP)
chunk_start(i) == Max(0, i - CHUNK_OVERLAP)

\* the chunk sizes and text lengths tried
ChunkInputs ==
    { <<L, S>> \in (0..MaxTextLen) \X (1..(MaxChunkMult * ChunkStep)) :
         \/ S % ChunkStep = 0
         \/ S <= MaxSmallSize /\ L <= MaxSmallLen }

IdleChunk ==
    /\ chunk_pc = "idle" /\ big_len = 0 /\ chunk_size = 1
    /\ chunk_i = 0 /\ chunks = <<>>

\* lines 55-57: chunk_text(big, chunk_size) is entered
InitChunk ==
    /\ chunk_pc = "loop"
    /\ \E in \in ChunkInputs : big_len = in[1] /\ chunk_size = in[2]
    /\ chunk_i = 0
    /\ chunks = <<>>

\* lines 58-62: one turn of the while loop
ChunkStepAction ==
    /\ chunk_pc = "loop"
    /\ chunk_i < big_len
    /\ LET end == chunk_i + chunk_size IN
       /\ chunks' = Append(chunks,
                       [index |-> Len(chunks),
                        text |-> slice(big_len, chunk_start(chunk_i), end)])
       /\ chunk_i' = end
    /\ UNCHANGED <<chunk_pc, big_len, chunk_size, crawl_vars, asset_vars, css_vars>>

\* lines 58, 63: the loop test fails and chunks is returned
ChunkReturn ==
    /\ chunk_pc = "loop"
    /\ ~(chunk_i < big_len)
    /\ chunk_pc' = "returned"
    /\ UNCHANGED <<big_len, chunk_size, chunk_i, chunks, crawl_vars, asset_vars, css_vars>>

(***************************************************************************)
(* The asset batch of render_and_capture (lines 206-215) and download_asset *)
(* (lines 77-97).  An asset URL is a number.                               *)
(***************************************************************************)
\* list(dict.fromkeys(s)): s without its repeats, first occurrences in order
\* (computed by halves: the first half's keys, then the second half's new keys)
RECURSIVE dict_fromkeys(_)
dict_fromkeys(s) ==
    IF Len(s) <= 1
    THEN s
    ELSE LET h == Len(s) \div 2
             l == dict_fromkeys(SubSeq(s, 1, h))
             r == dict_fromkeys(SubSeq(s, h + 1, Len(s)))
             keys == { l[i] : i \in 1..Len(l) }
             IsNew(x) == x \notin keys
         IN  l \o SelectSeq(r, IsNew)

cap_assets_missing(assets) == assets

\* lines 210-211: at most MAX_ASSETS assets are kept
cap_assets(assets) ==
    IF Len(assets) > MAX_ASSETS THEN SubSeq(assets, 1, MAX_ASSETS) ELSE assets

\* what the request for `u` meets: a network error, an error status, a
\* failing write, or success
Outcome(u, failing) ==
    IF u \notin failing THEN "ok"
    ELSE IF u % 3 = 0 THEN "network_error"
    ELSE IF u % 3 = 1 THEN "http_error"
    ELSE "save_failed"

\* download_asset (lines 77-97): every failure is caught and becomes a record
download_asset(u, outcome) ==
    IF outcome \in {"network_error", "http_error"}
    THEN [url |-> u, saved |-> FALSE, error |-> "request"]
    ELSE IF outcome = "save_failed"
    THEN [url |-> u, saved |-> FALSE, error |-> "save_failed"]
    ELSE [url |-> u, saved |-> TRUE, error |-> "none"]

\* the URLs a, a+1, ..., a+n-1
Run(a, n) == [i \in 1..n |-> a + i - 1]

\* the DOM-declared lists tried: dom_assets is duplicate-free (line 178)
DomLists == { Run(1, n) : n \in {0, 2, MAX_ASSETS - 1, MAX_ASSETS + 1} }

\* the CSS-declared lists tried: URLs the DOM may declare too, and others
CssUrls == {1, 2, 1001, 1002}
CssLists == UNION { [1..n -> CssUrls] : n \in 0..MaxCssAssets }

\* the sets of failing URLs tried
NetFailures == { {}, {1}, {1, 2, 1001}, {MAX_ASSETS - 1, 1002} }

IdleAssets ==
    /\ asset_pc = "idle" /\ dom_assets = <<>> /\ assets_from_css = <<>>
    /\ all_assets = <<>> /\ assets_meta = <<>> /\ dl_pos = 0
    /\ net_fail = {} /\ css_declared = <<>> /\ issued = <<>>

\* the capture has reached line 206
InitAssets ==
    /\ asset_pc = "css"
    /\ dom_assets \in DomLists
    /\ assets_from_css \in CssLists
    /\ css_declared = assets_from_css
    /\ net_fail \in NetFailures
    /\ all_assets = <<>>
    /\ assets_meta = <<>>
    /\ dl_pos = 0
    /\ issued = <<>>

\* line 206
DedupCssAssets ==
    /\ asset_pc = "css"
    /\ assets_from_css' = dict_fromkeys(assets_from_css)
    /\ asset_pc' = "union"
    /\ UNCHANGED <<dom_assets, all_assets, assets_meta, dl_pos, net_fail,
                   css_declared, issued, crawl_vars, chunk_vars, css_vars>>

\* lines 209-212
BuildAllAssets ==
    /\ asset_pc = "union"
    /\ all_assets' = cap_assets(dict_fromkeys(dom_assets \o assets_from_css))
    /\ assets_meta' = <<>>
    /\ dl_pos' = 0
    /\ asset_pc' = "download"
    /\ UNCHANGED <<dom_assets, assets_from_css, net_fail, css_declared, issued,
                   crawl_vars, chunk_vars, css_vars>>

\* lines 213-215: one turn of the loop
DownloadNext ==
    /\ asset_pc = "download"
    /\ dl_pos < Len(all_assets)
    /\ LET a == all_assets[dl_pos + 1] IN
       /\ issued' = Append(issued, a)
       /\ assets_meta' = Append(assets_meta, download_asset(a, Outcome(a, net_fail)))
    /\ dl_pos' = dl_pos + 1
    /\ UNCHANGED <<asset_pc, dom_assets, assets_from_css, all_assets, net_fail,
                   css_declared, crawl_vars, chunk_vars, css_vars>>

\* line 213: the list is exhausted
DownloadsDone ==
    /\ asset_pc = "download"
    /\ dl_pos = Len(all_assets)
    /\ asset_pc' = "done"
    /\ UNCHANGED <<dom_assets, assets_from_css, all_assets, assets_meta, dl_pos,
                   net_fail, css_declared, issued, crawl_vars, chunk_vars, css_vars>>

(***************************************************************************)
(* extract_urls_from_css (lines 65-75).                                    *)
(*                                                                         *)
(* A stylesheet is a sequence of references, each in one of three forms:   *)
(*   "url"         x{background:url(BODY)}                                 *)
(*   "import_str"  @import "BODY";                                         *)
(*   "import_url"  @import url(BODY);                                      *)
(* BODY is a string of the characters SP (a space), QT (a quote, ' or "),  *)
(* DATA (the five characters data:), a and b; inside the quotes of         *)
(* "import_str" it holds no QT.  URLOPEN is the four characters url( .     *)
(***************************************************************************)
BodyChars == {"SP", "QT", "DATA", "a", "b"}

Bodies(chars) == UNION { [1..n -> chars] : n \in 0..MaxBody }

Statements ==
    { [form |-> "url", body |-> b] : b \in Bodies(BodyChars) }
    \cup { [form |-> "import_str", body |-> b] : b \in Bodies(BodyChars \ {"QT"}) }
    \cup { [form |-> "import_url", body |-> b] : b \in Bodies(BodyChars) }

Stylesheets == UNION { [1..n -> Statements] : n \in 0..MaxStmts }

BaseUrls == {"http://site/css/s.css"}

\* str.strip(' \'"'): spaces and quotes are dropped at both ends
strip(t) ==
    LET keep == { i \in 1..Len(t) : t[i] \notin {"SP", "QT"} }
    IN  IF keep = {}
        THEN <<>>
        ELSE LET first == CHOOSE i \in keep : \A j \in keep : i <= j
                 last == CHOOSE i \in keep : \A j \in keep : j <= i
             IN  SubSeq(t, first, last)

\* the longest prefix of `t` that holds no quote: what [^"')]+ takes of a
\* body, which holds no ")"
UpToQuote(t) ==
    LET quotes == { i \in 1..Len(t) : t[i] = "QT" }
    IN  IF quotes = {}
        THEN t
        ELSE SubSeq(t, 1, (CHOOSE i \in quotes : \A j \in quotes : i <= j) - 1)

\* line 67: group 1 of the matches of url\(([^)]+)\) in one reference
url_groups(st) ==
    IF st.form \in {"url", "import_url"} /\ st.body # <<>>
    THEN << st.body >>
    ELSE <<>>

\* line 72: group 1 of the matches of @import\s+(?:url\()?["\']?([^"\')]+) in
\* one reference.  After "@import url(" the optional quote and then at least
\* one character other than a quote or ")" must follow; when none does, the
\* match is retried without the optional url( , and the group starts at "url("
import_groups(st) ==
    IF st.form = "import_str"
    THEN IF st.body # <<>> THEN << st.body >> ELSE <<>>
    ELSE IF st.form = "import_url"
    THEN LET rest == IF st.body # <<>> /\ st.body[1] = "QT"
                     THEN Tail(st.body)
                     ELSE st.body
         IN  IF UpToQuote(rest) # <<>>
             THEN << UpToQuote(rest) >>
             ELSE << <<"URLOPEN">> \o UpToQuote(st.body) >>
    ELSE <<>>

\* norm(base_url, raw) = urllib.parse.urljoin: an empty reference is the base
\* itself, a data: reference is absolute, any other one is relative to the base
css_norm(base, raw) ==
    IF raw # <<>> /\ raw[1] = "DATA"
    THEN [base |-> "", ref |-> raw]
    ELSE [base |-> base, ref |-> raw]

\* lines 67-71: the loop over the url(...) matches, from reference i on
RECURSIVE url_loop(_, _, _)
url_loop(css, i, base) ==
    IF i > Len(css)
    THEN <<>>
    ELSE LET g == url_groups(css[i])
             raw == IF g = <<>> THEN <<>> ELSE strip(g[1])
         IN  (IF g = <<>> \/ raw = <<>> \/ raw[1] = "DATA"
              THEN <<>>
              ELSE << css_norm(base, raw) >>)
             \o url_loop(css, i + 1, base)

\* lines 72-74: the loop over the @import matches, from reference i on
RECURSIVE import_loop(_, _, _)
import_loop(css, i, base) ==
    IF i > Len(css)
    THEN <<>>
    ELSE LET g == import_groups(css[i])
         IN  (IF g = <<>> THEN <<>> ELSE << css_norm(base, strip(g[1])) >>)
             \o import_loop(css, i + 1, base)

\* lines 66-75
extract_urls_from_css(css, base) ==
    dict_fromkeys(url_loop(css, 1, base) \o import_loop(css, 1, base))

IdleCss ==
    /\ css_pc = "idle" /\ css_text = <<>> /\ base_url = "" /\ css_urls = <<>>

InitCss ==
    /\ css_pc = "called"
    /\ css_text \in Stylesheets
    /\ base_url \in BaseUrls
    /\ css_urls = <<>>

\* the call returns its list
ExtractUrlsFromCss ==
    /\ css_pc = "called"
    /\ css_urls' = extract_urls_from_css(css_text, base_url)
    /\ css_pc' = "returned"
    /\ UNCHANGED <<css_text, base_url, crawl_vars, chunk_vars, asset_vars>>

Init == InitCrawl /\ IdleChunk /\ IdleAssets /\ IdleCss

Next ==
    \/ Main
    \/ SinglePageDone
    \/ Dequeue
    \/ LoopExit
    \/ MergeColors
    \/ DiscoverLink
    \/ DiscoverEnd
    \/ Enter
    \/ Navigate
    \/ Settle
    \/ Extract
    \/ Screenshot
    \/ ParseDom
    \/ ComputedColors
    \/ CollectCss
    \/ CollectAssets
    \/ Persist
    \/ Return

Spec == Init /\ [][Next]_vars

InitChunkSpec == IdleCrawl /\ InitChunk /\ IdleAssets /\ IdleCss

InitAssetsSpec == IdleCrawl /\ IdleChunk /\ InitAssets /\ IdleCss

InitCssSpec == IdleCrawl /\ IdleChunk /\ IdleAssets /\ InitCss

NextCss == ExtractUrlsFromCss

\* extract_urls_from_css applied to the stylesheets of Stylesheets
SpecCss == InitCssSpec /\ [][NextCss]_vars

NextAssets ==
    \/ DedupCssAssets
    \/ BuildAllAssets
    \/ DownloadNext
    \/ DownloadsDone

\* the asset batch of one capture, on the lists of DomLists and CssLists
SpecAssets == InitAssetsSpec /\ [][NextAssets]_vars

NextChunk ==
    \/ ChunkStepAction
    \/ ChunkReturn

\* chunk_text applied to the inputs of ChunkInputs
SpecChunk == InitChunkSpec /\ [][NextChunk]_vars

\* the program is sequential and always takes its next step
FairSpec == Spec /\ WF_vars(Next)

(***************************************************************************)
(* Properties of the crawl frontier and of the capture pipeline.           *)
(***************************************************************************)
Ended == pc \in {"done", "aborted"}

SameOriginPair(u, v) == u.scheme = v.scheme /\ u.netloc = v.netloc

\* C1: render_and_capture is invoked at most once per distinct URL during
\* one crawl, whatever the pages link to.
C1_CapturedAtMostOnce ==
    \A i, j \in 1..Len(calls) : calls[i] = calls[j] => i = j

\* a finished crawl of several pages in which an anchor pointed back at a
\* page that had already been visited
C1_Witness ==
    /\ depth = 1 /\ pc = "done" /\ Len(calls) >= 2
    /\ \E u \in rediscovered : u \in visited

\* C2: with same_origin set, every URL in visited, and every URL written to
\* visited_urls.txt, has the scheme and the network location of the start URL.
C2_VisitedSameOrigin ==
    same_origin =>
        /\ \A u \in visited : SameOriginPair(u, start_url)
        /\ \A u \in visited_urls_txt.lines : SameOriginPair(u, start_url)

\* a finished same-origin crawl that met a link to the same host under
\* another scheme and a link to another host, and visited several pages
C2_Witness ==
    /\ depth = 1 /\ same_origin /\ pc = "done"
    /\ Cardinality(visited_urls_txt.lines) >= 2
    /\ \E u \in rejected : u.netloc = start_url.netloc /\ u.scheme # start_url.scheme
    /\ \E u \in rejected : u.netloc # start_url.netloc

\* C3: when the crawl has ended, at most max_pages pages were captured,
\* exactly max_pages unless no eligible URL was left, and visited holds
\* exactly the captured URLs.
C3_PageBound ==
    (depth = 1 /\ Ended) =>
        /\ Len(calls) <= max_pages
        /\ Cardinality(returned) = max_pages \/ queue = <<>>
        /\ visited = returned

\* C4: in multi-page mode a navigation that times out or errors does not end
\* the crawl: the program is still running, or has finished with its final
\* writes.
C4_NavigationFailureIsPerPage ==
    (depth = 1 /\ raised_at = "navigate") =>
        /\ pc # "aborted"
        /\ pc = "done" => visited_urls_txt.written

\* C5: once navigation has succeeded, the failure of a later step of
\* render_and_capture does not abort the capture.
C5_LaterStepFailureDegrades ==
    (url \in nav_ok /\ raised_at \notin {"none", "navigate"}) => pc # "aborted"

NoDuplicates(q) == \A i, j \in 1..Len(q) : q[i] = q[j] => i = j

QueueInvariant ==
    /\ NoDuplicates(queue)
    /\ \A i \in 1..Len(queue) : queue[i] \notin visited

\* C6: visited never shrinks, the queue never holds a URL twice nor a visited
\* URL, and a link is appended only when it is neither visited nor queued.
C6_FrontierInvariant ==
    /\ []QueueInvariant
    /\ [][ /\ visited \subseteq visited'
           /\ Len(queue') > Len(queue) =>
                 /\ queue' = Append(queue, queue'[Len(queue')])
                 /\ queue'[Len(queue')] \notin visited
                 /\ ~InSeq(queue'[Len(queue')], queue) ]_vars

\* a crawl in which an anchor pointed at a URL that was waiting in the queue,
\* with several URLs queued and a page visited
C6_Witness ==
    /\ depth = 1 /\ Len(queue) >= 2 /\ visited # {}
    /\ \E u \in rediscovered : InSeq(u, queue)

\* C7: whenever the crawl has ended, colors_merged.txt and visited_urls.txt
\* have been written, the latter holding exactly the URLs in visited.
C7_EndedImpliesWritten ==
    (depth = 1 /\ Ended) =>
        /\ colors_merged_txt = File(merged_colors)
        /\ visited_urls_txt = File(visited)

\* C11: the crawl is a depth-1 crawl: every URL visited is the start URL or a
\* URL linked by an anchor on the start URL's page.
C11_DepthOne ==
    depth = 1 => \A u \in visited : u = start_url \/ u \in start_links

\* the crawl loop ends in every run: the page budget or the queue runs out,
\* or an exception leaves the loop
CrawlTerminates == <>Ended

(***************************************************************************)
(* Properties of chunk_text.                                               *)
(***************************************************************************)
CeilDiv(a, b) == (a + b - 1) \div b

\* C8 as stated: ceil(L / S) chunks, and every chunk i > 0 begins exactly
\* CHUNK_OVERLAP characters before i * S and ends at (i + 1) * S or at the end
\* of the text.
C8_ChunksAsStated ==
    chunk_pc = "returned" =>
        /\ Len(chunks) = CeilDiv(big_len, chunk_size)
        /\ \A k \in 1..Len(chunks) :
              LET i == k - 1 IN
              i > 0 =>
                 /\ chunks[k].text.start = i * chunk_size - CHUNK_OVERLAP
                 /\ chunks[k].text.stop = Min((i + 1) * chunk_size, big_len)

\* C8 amended: for a chunk size of at least 1, ceil(L / S) chunks, numbered
\* from 0; chunk i begins at max(0, i * S - CHUNK_OVERLAP), so exactly
\* CHUNK_OVERLAP characters before i * S when i * S >= CHUNK_OVERLAP and at the
\* start of the text otherwise, and ends at (i + 1) * S or at the end of the text.
C8_ChunksClamped ==
    chunk_pc = "returned" =>
        /\ Len(chunks) = CeilDiv(big_len, chunk_size)
        /\ \A k \in 1..Len(chunks) :
              LET i == k - 1 IN
              /\ chunks[k].index = i
              /\ chunks[k].text.stop = Min((i + 1) * chunk_size, big_len)
              /\ IF i * chunk_size >= CHUNK_OVERLAP
                 THEN chunks[k].text.start = i * chunk_size - CHUNK_OVERLAP
                 ELSE chunks[k].text.start = 0

\* a returned chunk list with a chunk that begins CHUNK_OVERLAP before its
\* boundary and a chunk i > 0 whose boundary is nearer the start than that
C8_Witness ==
    /\ chunk_pc = "returned"
    /\ \E k \in 2..Len(chunks) : chunks[k].text.start = 0
    /\ \E k \in 2..Len(chunks) :
          /\ chunks[k].text.start > 0
          /\ chunks[k].text.start = (k - 1) * chunk_size - CHUNK_OVERLAP

(***************************************************************************)
(* Properties of the asset batch.                                          *)
(***************************************************************************)
Declared == dom_assets \o css_declared

Range(s) == { s[i] : i \in 1..Len(s) }

\* the position at which `x` is first declared
FirstDeclared(x) ==
    LET at == { i \in 1..Len(Declared) : Declared[i] = x }
    IN  CHOOSE i \in at : \A j \in at : i <= j

\* C9: the downloads issued are the first at most MAX_ASSETS distinct declared
\* URLs, DOM before CSS, in the order of first declaration, each issued once;
\* they are issued in that order, and there is exactly one record per issued
\* URL, a failure record where the download failed, so that no failure stops
\* the batch.
C9_AssetBatch ==
    /\ Len(assets_meta) = Len(issued)
    /\ Len(issued) <= MAX_ASSETS
    /\ asset_pc = "done" =>
          /\ \A k \in 1..Len(issued) :
                /\ assets_meta[k].url = issued[k]
                /\ assets_meta[k].saved <=> issued[k] \notin net_fail
                /\ assets_meta[k].saved <=> assets_meta[k].error = "none"
          /\ Cardinality(Range(issued)) = Len(issued)
          /\ Range(issued) \subseteq Range(Declared)
          /\ \A k \in 1..(Len(issued) - 1) :
                FirstDeclared(issued[k]) < FirstDeclared(issued[k + 1])
          /\ Len(issued) = Min(MAX_ASSETS, Cardinality(Range(Declared)))
          /\ \A x \in Range(Declared) \ Range(issued) :
                FirstDeclared(x) > FirstDeclared(issued[Len(issued)])

\* a finished batch that was cut at MAX_ASSETS, with a URL declared twice, and
\* downloads that failed before the last one was issued
C9_Witness ==
    /\ asset_pc = "done"
    /\ Len(issued) = MAX_ASSETS
    /\ Cardinality(Range(Declared)) > MAX_ASSETS
    /\ Len(Declared) > Cardinality(Range(Declared))
    /\ \E k \in 1..(Len(assets_meta) - 1) : assets_meta[k].error = "request"
    /\ \E k \in 1..(Len(assets_meta) - 1) : assets_meta[k].error = "save_failed"

(***************************************************************************)
(* Properties of extract_urls_from_css.                                    *)
(***************************************************************************)
IsEmptyOrInlined(ref) == ref = <<>> \/ ref[1] = "DATA"

\* what an empty or inlined reference resolves to
FromEmptyOrInlined(entry) == IsEmptyOrInlined(entry.ref)

\* the URLs in the order the function meets them: the url(...) matches, then
\* the @import matches
Met == url_loop(css_text, 1, base_url) \o import_loop(css_text, 1, base_url)

FirstMet(x) ==
    LET at == { i \in 1..Len(Met) : Met[i] = x }
    IN  CHOOSE i \in at : \A j \in at : i <= j

\* C10: the list returned holds no entry that comes from an empty or data:
\* reference, in url(...) or in @import, holds no URL twice, and is in
\* first-seen order.
C10_NoEmptyNoInlinedNoRepeat ==
    css_pc = "returned" =>
        /\ \A k \in 1..Len(css_urls) : ~FromEmptyOrInlined(css_urls[k])
        /\ NoDuplicates(css_urls)
        /\ \A k \in 1..(Len(css_urls) - 1) :
              FirstMet(css_urls[k]) < FirstMet(css_urls[k + 1])

\* what does hold: no entry comes from an empty or data: url(...) reference
\* that is not an @import, no URL is listed twice, and the order is first-seen
CssUrlReferencesFiltered ==
    css_pc = "returned" =>
        /\ \A k \in 1..Len(css_urls) :
              FromEmptyOrInlined(css_urls[k]) =>
                 \E i \in 1..Len(css_text) : css_text[i].form # "url"
        /\ NoDuplicates(css_urls)
        /\ \A k \in 1..(Len(css_urls) - 1) :
              FirstMet(css_urls[k]) < FirstMet(css_urls[k + 1])
====
